---------------------------- MODULE Spec2Model ----------------------------
(***************************************************************************)
(* A model of src/main.py: the cache-backed page fetcher (parse_url), the  *)
(* two page parsers (_parse_games, parse_upper_dir_contents), the entry    *)
(* tree (UrlEntry, CollectionEntry) and its depth-limited report walk      *)
(* (print_entry_info).                                                     *)
(*                                                                         *)
(* Text is a sequence of one-character strings.  A page is a sequence of   *)
(* page tokens: a table row, a newline character (CR or LF) or plain text. *)
(***************************************************************************)
EXTENDS Integers, Sequences, FiniteSets, TLC

VARIABLES cacheDir, files, last, fetched, parsed, invalidated, calls, arg, ret

vars == <<cacheDir, files, last, fetched, parsed, invalidated, calls, arg, ret>>

-----------------------------------------------------------------------------
(* Strings *)

Letters ==
    {"a", "b", "c", "d", "e", "f", "g", "h", "i", "j", "k", "l", "m",
     "n", "o", "p", "q", "r", "s", "t", "u", "v", "w", "x", "y", "z",
     "A", "B", "C", "D", "E", "F", "G", "H", "I", "J", "K", "L", "M",
     "N", "O", "P", "Q", "R", "S", "T", "U", "V", "W", "X", "Y", "Z"}

Digits == {"0", "1", "2", "3", "4", "5", "6", "7", "8", "9"}

\* str.isalnum() of one character (the ASCII part of it)
isalnum(c) == c \in Letters \cup Digits

\* str.rstrip(): drop the trailing whitespace
RECURSIVE rstrip(_)
rstrip(s) ==
    IF s # <<>> /\ s[Len(s)] = " " THEN rstrip(SubSeq(s, 1, Len(s) - 1)) ELSE s

\* str.endswith("/") and str.startswith("/")
endswith_slash(s) == s # <<>> /\ s[Len(s)] = "/"

startswith_slash(s) == s # <<>> /\ s[1] = "/"

\* Python's None, and the truth value of an optional string
None == [some |-> FALSE, val |-> <<>>]

Some(s) == [some |-> TRUE, val |-> s]

Truthy(o) == o.some /\ o.val # <<>>

-----------------------------------------------------------------------------
(* The cache key: parse_url, lines 125-130 *)

keep_characters == {" ", ".", "_"}

KeepChar(c) == isalnum(c) \/ c \in keep_characters

conformed_url(url) == rstrip(SelectSeq(url, KeepChar))

\* hashlib.md5(s.encode('utf-8')).hexdigest(), tabulated for the strings the
\* model uses (each digest computed with hashlib)
MD5Table ==
  { <<<<"a", "/", "b">>, "a7e86136543b019d72468ceebf71fb8e">>,
    <<<<"a", "b">>, "187ef4436122d1cc2f40dc2b92f0eba0">>,
    <<<<"a", "b", " ">>, "b41cc92f16ecc342798e240cc2396471">>,
    <<<<"a", " ", "b">>, "0cc9cd4dd26c5137b675a0d819cb9ab0">>,
    <<<<"a", ".", "b">>, "e32b629f658481c8aa169aa08acc0625">>,
    <<<<"a", "_", "b">>, "dbf08e00b01fd58a4a5967753b43784f">>,
    <<<<"a", "-", "b">>, "8ca2ed590cf2ea2404f2e67641bcdf50">>,
    <<<<"a", ":", "b">>, "d8160c9b3dc20d4e931aeb4f45262155">>,
    <<<<"a", "/", "b", "/">>, "fd34a5a03a562879c756b86f232a08f4">>,
    <<<<"h", "/", "r">>, "a25b19efc663f1c244148819323feb33">>,
    <<<<"h", "r">>, "adab7b701f23bb82014c8506d3dc784e">>,
    <<<<"h", "/", "r", "/">>, "41e5ebe3dff41c717af11a8e81de320f">>,
    <<<<"h", "/", "r", "/", "a", "/">>, "bb7bda78dedc7f08c7309ce8397818cb">>,
    <<<<"h", "r", "a">>, "b849ebfa6f27b964d744ea625ac48618">>,
    <<<<"h", "/", "r", "/", "b">>, "2ef04b834ff180e372aeae4be26dd913">>,
    <<<<"h", "r", "b">>, "277717f43cd47a869abe2e494c16b6b0">>,
    <<<<"h", "/", "r", "/", "x", ".", "z">>, "5138928c55e1c670eed93de095bd152b">>,
    <<<<"h", "r", "x", ".", "z">>, "57b842f2bd371f95b2cde433ce5d333c">>,
    <<<<"h", "/", "r", "/", "y", ".", "z">>, "86a1c77774f8de492b8aa55a6a203c1d">>,
    <<<<"h", "r", "y", ".", "z">>, "ab060598fc1e8c07c1c8ee1253ae6f71">> }

md5_hexdigest(s) == (CHOOSE p \in MD5Table : p[1] = s)[2]

cache_dir == "cache"

\* the digest is taken over the sanitized text: breaks the key's injectivity
file_path_hash_of_conformed(url) ==
    <<cache_dir, "/">> \o conformed_url(url) \o <<"_", "_">>
        \o <<md5_hexdigest(conformed_url(url))>> \o <<".html">>

\* cache_dir + os.sep + conformed_url + "__" + md5(url) + ".html"
file_path(url) ==
    <<cache_dir, "/">> \o conformed_url(url) \o <<"_", "_">>
        \o <<md5_hexdigest(url)>> \o <<".html">>

-----------------------------------------------------------------------------
(* Pages *)

\* A table row
\*   <tr><td><a href="LINK"[ title="TITLE"]>TEXT</a></td><td>SIZE[ UNIT]</td><td>..</td></tr>
\* with a non-empty LINK and SIZE and no quote or newline inside a field;
\* title is None when the row has no title attribute, unit is "" when the
\* size cell holds no unit.
Row(link, title, text, size, unit) ==
    [t |-> "row", link |-> link, title |-> title, text |-> text,
     size |-> size, unit |-> unit]

Other(t) ==
    [t |-> t, link |-> <<>>, title |-> None, text |-> <<>>, size |-> <<>>, unit |-> ""]

\* the characters "\r" and "\n", and a run of text holding no markup
CR == Other("CR")

LF == Other("LF")

Text404 == Other("404 Not Found")

IsRow(tok) == tok.t = "row"

-----------------------------------------------------------------------------
(* Text files: open(.., "w") / f.write and open(.., "r") / f.read *)

\* os.linesep
linesep == <<LF>>

\* f.write(text) in text mode: every "\n" is written as os.linesep
RECURSIVE WriteText(_)
WriteText(text) ==
    IF text = <<>> THEN <<>>
    ELSE (IF Head(text) = LF THEN linesep ELSE <<Head(text)>>) \o WriteText(Tail(text))

\* f.read() in text mode (universal newlines): "\r\n" and "\r" are read as "\n"
RECURSIVE ReadText(_)
ReadText(data) ==
    IF data = <<>> THEN <<>>
    ELSE IF Head(data) = CR
         THEN IF Len(data) >= 2 /\ data[2] = LF
              THEN <<LF>> \o ReadText(SubSeq(data, 3, Len(data)))
              ELSE <<LF>> \o ReadText(Tail(data))
         ELSE <<Head(data)>> \o ReadText(Tail(data))

-----------------------------------------------------------------------------
(* Game and _parse_games *)

\* the members of EUnit, in declaration order
EUnit == <<"GiB", "MiB", "KiB">>

\* an outcome: the exception raised, or the value returned
Raise(exc) == [ok |-> FALSE, exc |-> exc, val |-> <<>>]

Return(v) == [ok |-> TRUE, exc |-> "", val |-> v]

DigitSeq == <<"0", "1", "2", "3", "4", "5", "6", "7", "8", "9">>

DigitVal(c) == (CHOOSE i \in 1..10 : DigitSeq[i] = c) - 1

RECURSIVE IntOf(_)
IntOf(ds) ==
    IF ds = <<>> THEN 0 ELSE 10 * IntOf(SubSeq(ds, 1, Len(ds) - 1)) + DigitVal(ds[Len(ds)])

RECURSIVE Normal(_, _)
Normal(mant, exp) ==
    IF mant = 0 THEN [mant |-> 0, exp |-> 0]
    ELSE IF exp > 0 /\ mant % 10 = 0 THEN Normal(mant \div 10, exp - 1)
    ELSE [mant |-> mant, exp |-> exp]

\* float(s) for a decimal numeral DIGITS[.DIGITS]: the number mant / 10^exp;
\* ValueError for any other text the model uses ("-", "x")
float(s) ==
    LET dots == {i \in 1..Len(s) : s[i] = "."}
        IsDigit(c) == c \in Digits
        ds == SelectSeq(s, IsDigit)
    IN  IF /\ \A i \in 1..Len(s) : s[i] \in Digits \cup {"."}
           /\ Cardinality(dots) <= 1
           /\ ds # <<>>
        THEN Return(Normal(IntOf(ds),
                           IF dots = {} THEN 0 ELSE Len(s) - (CHOOSE i \in dots : TRUE)))
        ELSE Raise("ValueError")

\* Game.__init__(match)
Game(match) ==
    LET size == float(match.size)
    IN  IF ~size.ok THEN size
        ELSE IF \E i \in 1..Len(EUnit) : match.unit = EUnit[i]
             THEN Return([link |-> match.link, title |-> match.title,
                          size |-> size.val, unit |-> match.unit])
             ELSE Raise("Exception: Failed to parse unit")

\* Game.__eq__ (and __hash__, which reads the same three fields)
GameEq(g, h) == g.title = h.title /\ g.size = h.size /\ g.unit = h.unit

\* the lines of a text as the pattern's "." sees them: "." matches every
\* character but "\n"
RECURSIVE SplitLines(_, _)
SplitLines(text, line) ==
    IF text = <<>> THEN <<line>>
    ELSE IF Head(text) = LF THEN <<line>> \o SplitLines(Tail(text), <<>>)
    ELSE SplitLines(Tail(text), Append(line, Head(text)))

\* the text between two hrefs that a greedy link group runs over
Markup == "<..>"

RECURSIVE LinkSpan(_, _)
LinkSpan(rows, n) ==
    IF n = 1 THEN rows[1].link
    ELSE LinkSpan(rows, n - 1) \o <<Markup>> \o rows[n].link

\* the units the item pattern accepts: (KiB|MiB|GiB)
PatternUnits == {"KiB", "MiB", "GiB"}

\* re.finditer(pattern, content) within one line: the greedy groups give at
\* most one match, which starts at the line's first row, takes its title,
\* size and unit from the last row whose size cell ends in an accepted
\* unit, and lets the link run to the last title attribute before that cell
ItemMatches(line) ==
    LET rows == SelectSeq(line, IsRow)
        V == {i \in 1..Len(rows) : rows[i].unit \in PatternUnits}
        vmax == CHOOSE i \in V : \A j \in V : j <= i
        A == {i \in 1..Len(rows) : rows[i].title.some /\ i <= vmax}
        amax == CHOOSE i \in A : \A j \in A : j <= i
    IN  IF V = {} THEN <<>>
        ELSE IF A = {} THEN <<>>
        ELSE << [link |-> LinkSpan(rows, amax), title |-> rows[vmax].text,
                 size |-> rows[vmax].size, unit |-> rows[vmax].unit] >>

RECURSIVE FindIter(_)
FindIter(lines) ==
    IF lines = <<>> THEN <<>> ELSE ItemMatches(Head(lines)) \o FindIter(Tail(lines))

\* [Game(m) for m in ...]: the first exception ends the comprehension
RECURSIVE Games(_)
Games(matches) ==
    IF matches = <<>> THEN Return(<<>>)
    ELSE LET g == Game(Head(matches))
             rest == Games(Tail(matches))
         IN  IF ~g.ok THEN g
             ELSE IF ~rest.ok THEN rest
             ELSE Return(<<g.val>> \o rest.val)

parse_games(content) == Games(FindIter(SplitLines(content, <<>>)))

-----------------------------------------------------------------------------
(* The remote site *)

Lup == <<".", ".", "/">>

La == <<"a", "/">>

Lb == <<"/", "b">>

Laa == <<"/", "/", "a", "/">>

Lx == <<"x", ".", "z">>

Ly == <<"y", ".", "z">>

Dash == <<"-">>

\* a directory of directories, its lines ending in "\r\n"
DirPage ==
    << Row(Lup, None, <<"P">>, Dash, ""), CR, LF,
       Row(La, Some(<<"A">>), La, Dash, ""), CR, LF,
       Row(Lb, None, <<"b">>, Dash, ""), CR, LF,
       Row(Laa, Some(<<>>), <<"a">>, Dash, ""), CR, LF >>

\* a directory of files, its lines ending in "\n"; the last row's unit is
\* none of EUnit
ItemPage ==
    << Row(Lx, Some(<<"X">>), <<"X">>, <<"1", ".", "0">>, "MiB"), LF,
       Row(Ly, Some(<<"Y">>), <<"Y">>, <<"2">>, "GiB"), LF,
       Row(Lx, Some(<<"Z">>), <<"Z">>, <<"3">>, "XiB"), LF >>

\* two rows of one name and size behind different links, lines ending in "\r"
ItemPageCR ==
    << Row(Lx, Some(<<"X">>), <<"X">>, <<"1", ".", "0">>, "MiB"), CR,
       Row(Ly, Some(<<"X">>), <<"X">>, <<"1">>, "MiB"), CR >>

\* a row whose size is no number
BadPage == << Row(Lx, Some(<<"W">>), <<"W">>, <<"x">>, "KiB"), LF >>

Bodies == {DirPage, ItemPage, ItemPageCR, BadPage}

\* the body of an error response
ErrorBody == <<Text404>>

\* requests.get(url): a response of any status is returned, a failure of
\* the connection raises
requests_get(url) ==
    {[raised |-> FALSE, status |-> "200", text |-> b] : b \in Bodies}
        \cup {[raised |-> FALSE, status |-> "404", text |-> ErrorBody]}
        \cup {[raised |-> TRUE, status |-> "", text |-> <<>>]}

-----------------------------------------------------------------------------
(* parse_url *)

\* One event of a call: what it did to the file at url's path ("remove",
\* "read", "write"), on the network ("get", with the response's status, ""
\* when the connection failed) or the text it handed to the parse function ("parse")
Ev(e, url, status, text) == [e |-> e, url |-> url, status |-> status, text |-> text]

\* a call's view of the machine: the cache directory, its files, the events
Log(m, ev) == [m EXCEPT !.trace = Append(@, ev)]

\* an outcome r of a call, with the machine it leaves
Result(m, r) == [m |-> m, ok |-> r.ok, exc |-> r.exc, val |-> r.val]

\* with the deletion left out: an invalidating call reads the old file
invalidate_keeps_file(url, invalidate_cache, m) == m

\* with the flag ignored: every call deletes the file it finds
invalidate_always(url, invalidate_cache, m) ==
    IF file_path(url) \in DOMAIN m.files
    THEN Log([m EXCEPT !.files = [p \in DOMAIN @ \ {file_path(url)} |-> @[p]]],
             Ev("remove", url, "", <<>>))
    ELSE m

\* lines 131-132: if invalidate_cache and os.path.exists(file_path): os.remove
invalidate(url, invalidate_cache, m) ==
    IF invalidate_cache /\ file_path(url) \in DOMAIN m.files
    THEN Log([m EXCEPT !.files = [p \in DOMAIN @ \ {file_path(url)} |-> @[p]]],
             Ev("remove", url, "", <<>>))
    ELSE m

\* lines 138-139: with open(file_path, "w") as f: f.write(text)
write_file(url, text, m) ==
    Log([m EXCEPT !.files = [p \in DOMAIN @ \cup {file_path(url)} |->
                                IF p = file_path(url) THEN WriteText(text) ELSE @[p]]],
        Ev("write", url, "", WriteText(text)))

\* lines 128-129: the cache directory is made when it is missing
mkdir(m) == [m EXCEPT !.dir = TRUE]

\* a parse function given to parse_url: _parse_games, or the lambda of
\* parse_upper_dir that calls parse_upper_dir_contents(url, content)
GamesFunc == [f |-> "_parse_games", url |-> <<>>]

UpperDirFunc(url) == [f |-> "parse_upper_dir_contents", url |-> url]

RECURSIVE parse_url(_, _, _, _)

\* _parse_games as the parse function of the page at url
games_parse_func(url, text, m) ==
    {Result(Log(m, Ev("parse", url, "", text)), parse_games(text))}

-----------------------------------------------------------------------------
(* Entries *)

\* set(list) and set.union: an element equal (Game.__eq__) to one already in
\* the set is not added
set_add(s, g) == IF \E h \in s : GameEq(h, g) THEN s ELSE s \cup {g}

RECURSIVE set_of(_)
set_of(list) ==
    IF list = <<>> THEN {} ELSE set_add(set_of(SubSeq(list, 1, Len(list) - 1)), list[Len(list)])

\* an element of the addend with an equal one in previous is added again
union_by_record(previous, addend) == previous \cup addend

set_union(previous, addend) ==
    previous \cup {g \in addend : ~ \E h \in previous : GameEq(h, g)}

\* the two entry classes; url is the address a UrlEntry was built from
MkUrlEntry(url, name, games) ==
    [kind |-> "UrlEntry", name |-> name, url |-> url, games |-> games, entries |-> <<>>]

CollectionEntry(name, entries) ==
    [kind |-> "CollectionEntry", name |-> name, url |-> <<>>, games |-> {},
     entries |-> entries]

\* UrlEntry.__init__(url, name): self._games = set(parse_url(url, _parse_games))
UrlEntry(url, name, m) ==
    { IF r.ok THEN Result(r.m, Return(<<MkUrlEntry(url, name, set_of(r.val))>>)) ELSE r
      : r \in parse_url(url, GamesFunc, FALSE, m) }

-----------------------------------------------------------------------------
(* parse_upper_dir *)

\* the link pattern matches the first cell of every row, in document order;
\* group title is None when the cell has no title attribute
DirMatches(content) ==
    LET rows == SelectSeq(content, IsRow)
    IN  [i \in 1..Len(rows) |-> [link |-> rows[i].link, title |-> rows[i].title]]

\* while link.startswith("/"): link = link[1:]
RECURSIVE strip_leading_slashes(_)
strip_leading_slashes(link) ==
    IF startswith_slash(link) THEN strip_leading_slashes(Tail(link)) ELSE link

\* the title is used whenever the cell has a title attribute, an empty one too
title_if_present(match) == IF match.title.some THEN match.title.val ELSE match.link

\* title = title_group if title_group else link
title_of(match) == IF Truthy(match.title) THEN match.title.val ELSE match.link

\* lines 187-192
combined_url(base_url, link) ==
    (IF endswith_slash(base_url) THEN base_url ELSE base_url \o <<"/">>)
        \o strip_leading_slashes(link)

\* lines 183-184: if link == "../": continue
skip_link(link) == link = Lup

\* the loop of parse_upper_dir_contents over the matches that are left, with
\* the entries built so far
RECURSIVE upper_dir_loop(_, _, _, _)
upper_dir_loop(base_url, matches, result, m) ==
    IF matches = <<>> THEN {Result(m, Return(result))}
    ELSE LET match == Head(matches)
         IN  IF skip_link(match.link)
             THEN upper_dir_loop(base_url, Tail(matches), result, m)
             ELSE UNION { IF r.ok
                          THEN upper_dir_loop(base_url, Tail(matches),
                                              result \o r.val, r.m)
                          ELSE {r}
                          : r \in UrlEntry(combined_url(base_url, match.link),
                                           title_of(match), m) }

parse_upper_dir_contents(base_url, content, m) ==
    upper_dir_loop(base_url, DirMatches(content), <<>>,
                   Log(m, Ev("parse", base_url, "", content)))

\* parse_func(text) for a parse function of the two kinds; url is the page's
apply_parse_func(parse_func, url, text, m) ==
    IF parse_func = GamesFunc THEN games_parse_func(url, text, m)
    ELSE parse_upper_dir_contents(parse_func.url, text, m)

\* parse_url(url, parse_func, invalidate_cache): every outcome the call can
\* have from machine m
parse_url(url, parse_func, invalidate_cache, m) ==
    LET m1 == invalidate(url, invalidate_cache, mkdir(m))
    IN  IF file_path(url) \in DOMAIN m1.files
        THEN LET text == ReadText(m1.files[file_path(url)])
             IN  apply_parse_func(parse_func, url, text, Log(m1, Ev("read", url, "", text)))
        ELSE UNION { IF g.raised
                     THEN {Result(Log(m1, Ev("get", url, g.status, g.text)),
                                  Raise("ConnectionError"))}
                     ELSE apply_parse_func(parse_func, url, g.text,
                                           write_file(url, g.text,
                                                      Log(m1, Ev("get", url, g.status, g.text))))
                     : g \in requests_get(url) }

\* parse_upper_dir(url, name)
parse_upper_dir(url, name, m) ==
    { IF r.ok
      THEN Result(r.m, Return(<<CollectionEntry(IF Truthy(name) THEN name.val ELSE url,
                                                r.val)>>))
      ELSE r
      : r \in parse_url(url, UpperDirFunc(url), FALSE, m) }

-----------------------------------------------------------------------------
(* The fetching program: calls of parse_url, UrlEntry and parse_upper_dir *)

\* the number of calls a behaviour makes
MaxCalls == 3

Roots == { <<"h", "/", "r">>, <<"h", "/", "r", "/">> }

\* the addresses of the pages under a root that the site's pages link to
Urls ==
    Roots \cup { <<"h", "/", "r", "/", "a", "/">>, <<"h", "/", "r", "/", "b">>,
                 <<"h", "/", "r", "/", "x", ".", "z">>, <<"h", "/", "r", "/", "y", ".", "z">> }

\* the addresses that parse_url and UrlEntry are called with directly
LeafUrls == Roots \cup { <<"h", "/", "r", "/", "a", "/">> }

LeafName == <<"N">>

NoCall ==
    [op |-> "none", url |-> <<>>, invalidate_cache |-> FALSE, before |-> <<>>,
     trace |-> <<>>, ok |-> TRUE, exc |-> "", val |-> <<>>]

\* the events of a trace that are e events, and those of them at url
Events(trace, e) == SelectSeq(trace, LAMBDA ev : ev.e = e)

EventsAt(trace, e, url) == SelectSeq(trace, LAMBDA ev : ev.e = e /\ ev.url = url)

Statuses(evs) == [i \in 1..Len(evs) |-> evs[i].status]

Texts(evs) == [i \in 1..Len(evs) |-> evs[i].text]

Machine == [dir |-> cacheDir, files |-> files, trace |-> <<>>]

\* The state after a call with outcome r.  last is the call: its arguments,
\* the files before it, its events and its outcome.  fetched and parsed are
\* the history of each address: the status of every GET made for it, and
\* every text of its page handed to a parse function.
Finish(op, url, invalidate_cache, r) ==
    /\ cacheDir' = r.m.dir
    /\ files' = r.m.files
    /\ last' = [op |-> op, url |-> url, invalidate_cache |-> invalidate_cache,
                before |-> files, trace |-> r.m.trace, ok |-> r.ok, exc |-> r.exc,
                val |-> r.val]
    /\ fetched' = [u \in Urls |-> fetched[u] \o Statuses(EventsAt(r.m.trace, "get", u))]
    /\ parsed' = [u \in Urls |-> parsed[u] \o Texts(EventsAt(r.m.trace, "parse", u))]
    /\ invalidated' = (invalidated \/ invalidate_cache)
    /\ calls' = calls + 1
    /\ UNCHANGED <<arg, ret>>

\* parse_url(url, _parse_games, invalidate_cache)
CallParseUrl ==
    /\ calls < MaxCalls
    /\ \E url \in LeafUrls, invalidate_cache \in BOOLEAN :
         \E r \in parse_url(url, GamesFunc, invalidate_cache, Machine) :
            Finish("parse_url", url, invalidate_cache, r)

\* UrlEntry(url, name)
NewUrlEntry ==
    /\ calls < MaxCalls
    /\ \E url \in LeafUrls :
         \E r \in UrlEntry(url, LeafName, Machine) :
            Finish("UrlEntry", url, FALSE, r)

\* parse_upper_dir(url)
CallParseUpperDir ==
    /\ calls < MaxCalls
    /\ \E url \in Roots :
         \E r \in parse_upper_dir(url, None, Machine) :
            Finish("parse_upper_dir", url, FALSE, r)

\* the program starts with no cache directory
Init ==
    /\ cacheDir = FALSE
    /\ files = <<>>
    /\ last = NoCall
    /\ fetched = [u \in Urls |-> <<>>]
    /\ parsed = [u \in Urls |-> <<>>]
    /\ invalidated = FALSE
    /\ calls = 0
    /\ arg = <<>>
    /\ ret = <<>>

\* a program that fetches single pages
Next == CallParseUrl \/ NewUrlEntry

Spec == Init /\ [][Next]_vars

\* a program that builds collections from directory pages
NextDir == CallParseUpperDir

SpecDir == Init /\ [][NextDir]_vars

-----------------------------------------------------------------------------
(* Properties of the fetching program *)

LastPath == file_path(last.url)

LastGets == Events(last.trace, "get")

LastParses == Events(last.trace, "parse")

IsFetch == last.op \in {"parse_url", "UrlEntry"}

\* the last call found a cache entry at its key and did not invalidate it
Hit == IsFetch /\ ~last.invalidate_cache /\ LastPath \in DOMAIN last.before

Miss == IsFetch /\ LastPath \notin DOMAIN last.before

Responded(ev) == ev.status # ""

\* C1: a fetch with invalidate=false that finds an entry at the url's key
\* hands on exactly the stored content and makes no network access; one that
\* finds none makes one GET, stores the whole response body at the key and
\* hands it on.  Hence, with no invalidating call, a url whose first GET got
\* a response is fetched once only and every text handed on for it is the
\* same.
C1_FetchOncePerUrl ==
    /\ Hit => /\ LastGets = <<>>
              /\ Texts(LastParses) = <<last.before[LastPath]>>
    /\ (Miss /\ ~last.invalidate_cache) =>
              /\ Len(LastGets) = 1
              /\ Responded(LastGets[1]) =>
                    /\ LastPath \in DOMAIN files
                    /\ files[LastPath] = LastGets[1].text
                    /\ Texts(LastParses) = <<LastGets[1].text>>
    /\ ~invalidated =>
          \A u \in Urls :
             (fetched[u] # <<>> /\ fetched[u][1] # "") =>
                /\ Len(fetched[u]) = 1
                /\ \A i \in 1..Len(parsed[u]) : parsed[u][i] = parsed[u][1]

\* what of C1 the program keeps: a hit makes no network access and stores
\* nothing, a miss makes exactly one GET and stores a response's body, and
\* without invalidation a url that got a response is never fetched again
C1_NoRefetch ==
    /\ Hit => /\ LastGets = <<>>
              /\ Events(last.trace, "write") = <<>>
              /\ Len(LastParses) = 1
    /\ (Miss /\ ~last.invalidate_cache) =>
              /\ Len(LastGets) = 1
              /\ Responded(LastGets[1]) =>
                    /\ LastPath \in DOMAIN files
                    /\ files[LastPath] = LastGets[1].text
                    /\ Texts(LastParses) = <<LastGets[1].text>>
    /\ ~invalidated =>
          \A u \in Urls :
             (fetched[u] # <<>> /\ fetched[u][1] # "") => Len(fetched[u]) = 1

\* C2: an invalidating fetch that finds an entry deletes it, then makes
\* exactly one GET and, of a response, one write of the new body; the text
\* handed to the parser is that body, the old file is never read, and the
\* entry holds the new body afterwards.  (No response: nothing is written or
\* parsed, and the entry stays deleted.)
C2_InvalidateRefetches ==
    (IsFetch /\ last.invalidate_cache /\ LastPath \in DOMAIN last.before) =>
        LET t == last.trace
        IN  /\ Len(t) >= 2
            /\ t[1].e = "remove" /\ t[1].url = last.url
            /\ t[2].e = "get" /\ t[2].url = last.url
            /\ Len(Events(t, "remove")) = 1
            /\ Len(LastGets) = 1
            /\ Events(t, "read") = <<>>
            /\ IF Responded(t[2])
               THEN /\ Len(t) = 4
                    /\ t[3].e = "write" /\ t[3].url = last.url /\ t[3].text = t[2].text
                    /\ t[4].e = "parse" /\ t[4].text = t[2].text
                    /\ LastPath \in DOMAIN files
                    /\ files[LastPath] = t[2].text
               ELSE /\ Len(t) = 2
                    /\ LastPath \notin DOMAIN files
                    /\ ~last.ok

\* an invalidating call replaced a cached page by a different one
C2_Witness ==
    /\ IsFetch /\ last.invalidate_cache
    /\ LastPath \in DOMAIN last.before
    /\ LastPath \in DOMAIN files
    /\ files[LastPath] # last.before[LastPath]
    /\ Texts(LastParses) = <<files[LastPath]>>

\* C3: a GET that ends in a network or HTTP failure (an error status
\* included) makes the call raise instead of handing on page text, and is
\* not tried again
C3_FailureSurfaces ==
    \A i \in 1..Len(last.trace) :
       (last.trace[i].e = "get" /\ last.trace[i].status # "200") =>
           /\ ~last.ok
           /\ EventsAt(last.trace, "parse", last.trace[i].url) = <<>>
           /\ Len(EventsAt(last.trace, "get", last.trace[i].url)) = 1

\* the part of C3 about a failed connection
C3_ConnectionFailureSurfaces ==
    \A i \in 1..Len(last.trace) :
       (last.trace[i].e = "get" /\ last.trace[i].status = "") =>
           /\ ~last.ok /\ last.exc = "ConnectionError"
           /\ i = Len(last.trace)
           /\ Len(EventsAt(last.trace, "get", last.trace[i].url)) = 1

\* a row of the item shape (title attribute, size, unit token) whose unit
\* is none of KiB, MiB, GiB
BadUnitRow(tok) == IsRow(tok) /\ tok.title.some /\ tok.unit # "" /\ tok.unit \notin PatternUnits

\* C4: _parse_games on a page holding a row of the item shape with a unit
\* token other than KiB, MiB, GiB raises the unit error and returns no list
C4_BadUnitRaises ==
    (IsFetch /\ \E i \in 1..Len(LastParses) :
                   \E j \in 1..Len(LastParses[i].text) : BadUnitRow(LastParses[i].text[j]))
        => (~last.ok /\ last.exc = "Exception: Failed to parse unit")

\* C10: a fetch for url u touches the file at u's key only, every other
\* file stays as it was; and a call that does not invalidate leaves a file
\* it finds at its key as it is
C10_OnlyOwnKey ==
    IsFetch =>
        /\ \A p \in (DOMAIN last.before \cup DOMAIN files) \ {LastPath} :
              /\ p \in DOMAIN last.before
              /\ p \in DOMAIN files
              /\ files[p] = last.before[p]
        /\ \A i \in 1..Len(last.trace) : last.trace[i].url = last.url
        /\ ~last.invalidate_cache =>
              /\ DOMAIN last.before \subseteq DOMAIN files
              /\ \A p \in DOMAIN last.before : files[p] = last.before[p]
              /\ LastPath \in DOMAIN last.before =>
                    /\ Events(last.trace, "write") = <<>>
                    /\ Events(last.trace, "remove") = <<>>

\* a call stored its page beside another url's file, and a later call found
\* its own file
C10_Witness ==
    /\ IsFetch
    /\ \E p \in DOMAIN last.before : p # LastPath
    /\ \/ Events(last.trace, "write") # <<>>
       \/ Hit

-----------------------------------------------------------------------------
(* Properties of parse_upper_dir *)

IsBuild == last.op = "parse_upper_dir"

\* the page text the last parse_upper_dir call parsed, and its links other
\* than the parent link, in page order
BuildText == EventsAt(last.trace, "parse", last.url)[1].text

BuildLinks == SelectSeq(BuildText, LAMBDA tok : IsRow(tok) /\ tok.link # Lup)

\* the base url followed by exactly one "/" when it does not end in one
BaseWithSlash(base) ==
    CHOOSE b \in {base, base \o <<"/">>} :
        /\ b[Len(b)] = "/"
        /\ b = base \o <<"/">> => (base = <<>> \/ base[Len(base)] # "/")

\* rest is link without its leading slashes
IsStripped(link, rest) ==
    \E k \in 0..Len(link) :
        /\ \A j \in 1..k : link[j] = "/"
        /\ k < Len(link) => link[k + 1] # "/"
        /\ rest = SubSeq(link, k + 1, Len(link))

ChildOfLink(child, row, name) ==
    /\ child.kind = "UrlEntry"
    /\ child.name = name
    /\ \E n \in 0..Len(child.url) :
          /\ SubSeq(child.url, 1, n) = BaseWithSlash(last.url)
          /\ IsStripped(row.link, SubSeq(child.url, n + 1, Len(child.url)))

\* C8 as stated: one UrlEntry child per link other than "../", in page
\* order, at the base url, one "/", and the link without its leading
\* slashes; named by the link's title, or by the link when the title
\* attribute is absent
C8_ChildPerLink_TitleAbsent ==
    (IsBuild /\ last.ok) =>
        LET children == last.val[1].entries
        IN  /\ Len(children) = Len(BuildLinks)
            /\ \A i \in 1..Len(children) :
                  ChildOfLink(children[i], BuildLinks[i],
                              IF BuildLinks[i].title.some THEN BuildLinks[i].title.val
                              ELSE BuildLinks[i].link)

\* C8, amended: the child is named by the link's title, or by the link when
\* the title attribute is absent or empty
C8_ChildPerLink ==
    (IsBuild /\ last.ok) =>
        LET children == last.val[1].entries
        IN  /\ last.val[1].kind = "CollectionEntry"
            /\ Len(children) = Len(BuildLinks)
            /\ \A i \in 1..Len(children) :
                  ChildOfLink(children[i], BuildLinks[i],
                              IF BuildLinks[i].title.some /\ BuildLinks[i].title.val # <<>>
                              THEN BuildLinks[i].title.val
                              ELSE BuildLinks[i].link)

\* a collection built from the directory page at a root without a final
\* "/": three children, the parent link left out, one named by its link
\* because its title is empty
C8_Witness ==
    /\ IsBuild /\ last.ok
    /\ last.url = <<"h", "/", "r">>
    /\ Len(SelectSeq(BuildText, IsRow)) = 4
    /\ Len(last.val[1].entries) = 3
    /\ last.val[1].entries[3].name = Laa
    /\ last.val[1].entries[1].name = <<"A">>

\* the urls of the last build's children, in page order
BuildChildUrls == [i \in 1..Len(BuildLinks) |-> combined_url(last.url, BuildLinks[i].link)]

FirstIndex(seq, x) == CHOOSE i \in 1..Len(seq) : seq[i] = x /\ \A j \in 1..(i - 1) : seq[j] # x

\* a page is stored before it is parsed, and stays stored when the call
\* fails; a page found in the cache is not fetched; in a build the parent
\* page is stored before any child is fetched and the children are fetched
\* in page order
PersistBeforeParse ==
    LET t == last.trace
    IN  /\ \A i \in 1..Len(t) :
              (t[i].e = "get" /\ Responded(t[i])) =>
                  /\ Len(t) >= i + 2
                  /\ t[i + 1].e = "write" /\ t[i + 1].url = t[i].url
                  /\ t[i + 1].text = t[i].text
                  /\ t[i + 2].e = "parse" /\ t[i + 2].url = t[i].url
                  /\ t[i + 2].text = t[i].text
                  /\ file_path(t[i].url) \in DOMAIN files
                  /\ files[file_path(t[i].url)] = t[i].text
        /\ \A i \in 1..Len(t) :
              (t[i].e = "get" /\ ~last.invalidate_cache) =>
                  file_path(t[i].url) \notin DOMAIN last.before
        /\ (IsBuild /\ EventsAt(t, "parse", last.url) # <<>>) =>
              \A i, j \in 1..Len(t) :
                 (i < j /\ t[i].e = "get" /\ t[j].e = "get") =>
                    /\ t[j].url \in {BuildChildUrls[k] : k \in 1..Len(BuildChildUrls)}
                    /\ \/ /\ t[i].url = last.url
                          /\ i = 1
                          /\ t[2].e = "write" /\ t[2].url = last.url
                       \/ /\ t[i].url \in {BuildChildUrls[k] : k \in 1..Len(BuildChildUrls)}
                          /\ FirstIndex(BuildChildUrls, t[i].url)
                                < FirstIndex(BuildChildUrls, t[j].url)

\* C9: a missed page is stored before it is parsed and stays stored when the
\* parse or a child's construction fails; every later construction for the
\* url (none invalidates) makes no network access for the page and parses
\* the same text again; a build stores the parent page before it fetches a
\* child and fetches the children in page order
C9_StoredBeforeParse ==
    /\ PersistBeforeParse
    /\ ~invalidated => \A u \in Urls : \A i \in 1..Len(parsed[u]) : parsed[u][i] = parsed[u][1]

\* a build that failed in a child after it had stored the parent page,
\* followed by a build of the same url
C9_Witness ==
    /\ IsBuild
    /\ LastPath \in DOMAIN last.before
    /\ Len(parsed[last.url]) = 2
    /\ Len(fetched[last.url]) = 1

-----------------------------------------------------------------------------
(* The cache key of two urls *)

KeyUrls ==
    { <<"a", "/", "b">>, <<"a", "b">>, <<"a", "b", " ">>, <<"a", " ", "b">>,
      <<"a", ".", "b">>, <<"a", "_", "b">>, <<"a", "-", "b">>, <<"a", ":", "b">>,
      <<"a", "/", "b", "/">>, <<"h", "/", "r">>, <<"h", "/", "r", "/">> }

Idle ==
    /\ cacheDir = FALSE
    /\ files = <<>>
    /\ last = NoCall
    /\ fetched = [u \in Urls |-> <<>>]
    /\ parsed = [u \in Urls |-> <<>>]
    /\ invalidated = FALSE
    /\ calls = 0

InitKey ==
    /\ Idle
    /\ arg \in KeyUrls \X KeyUrls
    /\ ret = <<>>

\* the file path is derived for both urls
DeriveKeys ==
    /\ ret = <<>>
    /\ ret' = <<file_path(arg[1]), file_path(arg[2])>>
    /\ UNCHANGED <<cacheDir, files, last, fetched, parsed, invalidated, calls, arg>>

SpecKey == InitKey /\ [][DeriveKeys]_vars

\* a url with every character dropped that is not alphanumeric, space,
\* period or underscore
Sanitized(url) == SelectSeq(url, LAMBDA c : c \in Letters \cup Digits \cup {" ", ".", "_"})

\* C5: one url has one key, and two distinct urls that are equal after
\* sanitization (also after the trailing spaces are trimmed) have distinct
\* keys
C5_KeyOfUrl ==
    ret # <<>> =>
        /\ arg[1] = arg[2] => ret[1] = ret[2]
        /\ (arg[1] # arg[2] /\ rstrip(Sanitized(arg[1])) = rstrip(Sanitized(arg[2])))
              => ret[1] # ret[2]

\* the keys of "a/b" and "ab" were derived
C5_Witness ==
    /\ ret # <<>>
    /\ arg = << <<"a", "/", "b">>, <<"a", "b">> >>
    /\ Sanitized(arg[1]) = Sanitized(arg[2])
    /\ ret[1] # ret[2]

-----------------------------------------------------------------------------
(* Entry trees: CollectionEntry.games and print_entry_info *)

\* the number of entries of a tree
MaxNodes == 5

\* the largest depth limit given to print_entry_info
MaxLimit == 2

GX == [link |-> Lx, title |-> <<"X">>, size |-> [mant |-> 1, exp |-> 0], unit |-> "MiB"]

GX2 == [link |-> Ly, title |-> <<"X">>, size |-> [mant |-> 1, exp |-> 0], unit |-> "MiB"]

GY == [link |-> Ly, title |-> <<"Y">>, size |-> [mant |-> 2, exp |-> 0], unit |-> "GiB"]

GY2 == [link |-> Lx, title |-> <<"Y">>, size |-> [mant |-> 2, exp |-> 0], unit |-> "GiB"]

GZ == [link |-> Lx, title |-> <<"X">>, size |-> [mant |-> 1, exp |-> 0], unit |-> "GiB"]

\* lists that _parse_games returns
GameLists == { <<GX, GY>>, <<GY2, GZ>>, <<GX, GX2>> }

LeafEntries == { MkUrlEntry(<<>>, LeafName, set_of(list)) : list \in GameLists }

CollectionName == <<"C">>

\* the trees of exactly n entries, and the lists of trees of n entries in all
RECURSIVE TreesOfSize(_), ForestsOfSize(_)
TreesOfSize(n) ==
    IF n = 1 THEN LeafEntries \cup {CollectionEntry(CollectionName, <<>>)}
    ELSE {CollectionEntry(CollectionName, f) : f \in ForestsOfSize(n - 1)}

ForestsOfSize(n) ==
    IF n = 0 THEN {<<>>}
    ELSE UNION { {<<t>> \o f : t \in TreesOfSize(k), f \in ForestsOfSize(n - k)}
                 : k \in 1..n }

Trees == UNION {TreesOfSize(n) : n \in 1..MaxNodes}

\* sub_entries_depth_limit: None, or a number
NoLimit == [some |-> FALSE, val |-> 0]

Limits == {NoLimit} \cup {[some |-> TRUE, val |-> k] : k \in 0..MaxLimit}

\* BaseEntry.games: UrlEntry returns its set, CollectionEntry reduces its
\* entries' sets with union, from the empty set
RECURSIVE games(_)
RECURSIVE reduce_union(_, _)
reduce_union(previous, entries) ==
    IF entries = <<>> THEN previous
    ELSE reduce_union(set_union(previous, games(Head(entries))), Tail(entries))

games(entry) ==
    IF entry.kind = "UrlEntry" THEN entry.games ELSE reduce_union({}, entry.entries)

\* one printed summary (print_games_info: the name at its depth and the
\* amount of games) of the entry at path, or the empty line that print()
\* writes
Summary(entry, path, depth) ==
    [line |-> "summary", name |-> entry.name, depth |-> depth,
     amount |-> Cardinality(games(entry)), path |-> path]

EmptyLine == [line |-> "empty", name |-> <<>>, depth |-> 0, amount |-> 0, path |-> <<>>]

\* the limit is reached one level late
descends_le(entry, depth, sub_entries_depth_limit) ==
    /\ ~sub_entries_depth_limit.some \/ depth <= sub_entries_depth_limit.val
    /\ entry.kind = "CollectionEntry"
    /\ Len(entry.entries) > 0

\* lines 148-149
descends(entry, depth, sub_entries_depth_limit) ==
    /\ ~sub_entries_depth_limit.some \/ depth < sub_entries_depth_limit.val
    /\ entry.kind = "CollectionEntry"
    /\ Len(entry.entries) > 0

\* print_entry_info(entry, depth, sub_entries_depth_limit): what it prints;
\* path is the entry's place in the tree that the first call was given
RECURSIVE print_entry_info(_, _, _, _)
RECURSIVE print_children(_, _, _, _, _)
print_children(entries, i, path, depth, sub_entries_depth_limit) ==
    IF i > Len(entries) THEN <<>>
    ELSE print_entry_info(entries[i], Append(path, i), depth, sub_entries_depth_limit)
            \o print_children(entries, i + 1, path, depth, sub_entries_depth_limit)

print_entry_info(entry, path, depth, sub_entries_depth_limit) ==
    <<Summary(entry, path, depth)>> \o
        (IF descends(entry, depth, sub_entries_depth_limit)
         THEN print_children(entry.entries, 1, path, depth + 1, sub_entries_depth_limit)
         ELSE <<EmptyLine>>)

NoOutput == [op |-> "none", printed |-> <<>>, games |-> {}]

InitTree ==
    /\ Idle
    /\ arg \in [entry : Trees, limit : Limits]
    /\ ret = NoOutput

\* print_entry_info(entry, sub_entries_depth_limit=limit), from depth 0
PrintEntryInfo ==
    /\ ret = NoOutput
    /\ ret' = [op |-> "print_entry_info",
               printed |-> print_entry_info(arg.entry, <<>>, 0, arg.limit), games |-> {}]
    /\ UNCHANGED <<cacheDir, files, last, fetched, parsed, invalidated, calls, arg>>

\* entry.games
GetGames ==
    /\ ret = NoOutput
    /\ ret' = [op |-> "games", printed |-> <<>>, games |-> games(arg.entry)]
    /\ UNCHANGED <<cacheDir, files, last, fetched, parsed, invalidated, calls, arg>>

NextTree == PrintEntryInfo \/ GetGames

SpecTree == InitTree /\ [][NextTree]_vars

-----------------------------------------------------------------------------
(* Properties of entry trees *)

\* what makes two records one element: name, size and unit
Ident(g) == <<g.title, g.size, g.unit>>

Idents(S) == {Ident(g) : g \in S}

Range(seq) == {seq[i] : i \in 1..Len(seq)}

\* C6: the games of a CollectionEntry are the union of its entries' games
\* with records of one name, size and unit counted once whatever their
\* links, in a collection and in the set a UrlEntry makes of a parsed list
C6_UnionOfChildren ==
    /\ (ret.op = "games" /\ arg.entry.kind = "CollectionEntry") =>
          LET children == arg.entry.entries
              all == UNION {games(children[i]) : i \in 1..Len(children)}
          IN  /\ ret.games \subseteq all
              /\ Idents(ret.games) = Idents(all)
              /\ Cardinality(ret.games) = Cardinality(Idents(all))
    /\ \A list \in GameLists :
          /\ set_of(list) \subseteq Range(list)
          /\ Idents(set_of(list)) = Idents(Range(list))
          /\ Cardinality(set_of(list)) = Cardinality(Idents(Range(list)))

\* the games of a collection of A = {x, y} and B = {y, z}, y behind another
\* link in B, were taken: three records
C6_Witness ==
    /\ ret.op = "games"
    /\ arg.entry = CollectionEntry(CollectionName,
                                   << MkUrlEntry(<<>>, LeafName, {GX, GY}),
                                      MkUrlEntry(<<>>, LeafName, {GY2, GZ}) >>)
    /\ ret.games = {GX, GY, GZ}
    /\ set_of(<<GX, GX2>>) = {GX}

\* the places of the entries of a tree: the path of child indexes from the
\* root, whose length is the entry's depth
RECURSIVE NodePaths(_)
NodePaths(entry) ==
    {<<>>} \cup UNION { {<<i>> \o q : q \in NodePaths(entry.entries[i])}
                        : i \in 1..Len(entry.entries) }

RECURSIVE NodeAt(_, _)
NodeAt(entry, path) ==
    IF path = <<>> THEN entry ELSE NodeAt(entry.entries[Head(path)], Tail(path))

\* p comes before q in pre-order: p is an ancestor of q, or p branches off
\* to an earlier child
PreOrderBefore(p, q) ==
    \/ Len(p) < Len(q) /\ SubSeq(q, 1, Len(p)) = p
    \/ \E k \in 1..Len(p) :
          /\ k <= Len(q)
          /\ SubSeq(p, 1, k - 1) = SubSeq(q, 1, k - 1)
          /\ p[k] < q[k]

\* C7: print_entry_info from depth 0 prints, in pre-order and each at its
\* depth, exactly the entries whose depth is at most the limit (all entries
\* without a limit), each once; with limit 0 that is the root alone
C7_WalkPreOrder ==
    ret.op = "print_entry_info" =>
        LET out == SelectSeq(ret.printed, LAMBDA l : l.line = "summary")
            expected == {q \in NodePaths(arg.entry) :
                            ~arg.limit.some \/ Len(q) <= arg.limit.val}
        IN  /\ {out[i].path : i \in 1..Len(out)} = expected
            /\ Len(out) = Cardinality(expected)
            /\ out[1].path = <<>>
            /\ \A i \in 1..Len(out) :
                  /\ out[i].depth = Len(out[i].path)
                  /\ out[i].name = NodeAt(arg.entry, out[i].path).name
                  /\ out[i].amount = Cardinality(games(NodeAt(arg.entry, out[i].path)))
            /\ \A i \in 1..(Len(out) - 1) : PreOrderBefore(out[i].path, out[i + 1].path)
            /\ (arg.limit.some /\ arg.limit.val = 0) => Len(out) = 1

\* a tree with an entry at depth 2 was printed with limit 1: the root and
\* its children are printed, the entry at depth 2 is not
C7_Witness ==
    /\ ret.op = "print_entry_info"
    /\ arg.limit = [some |-> TRUE, val |-> 1]
    /\ \E q \in NodePaths(arg.entry) : Len(q) = 2
    /\ Len(arg.entry.entries) = 2
    /\ Len(SelectSeq(ret.printed, LAMBDA l : l.line = "summary")) = 3

=============================================================================
